---- MODULE Spec2Model ----
(***************************************************************************)
(* Routing State Manager of src/api/app.py: the JSON state document kept   *)
(* in STATE_FILE, read_state / update_state under _state_lock, the atomic  *)
(* write through a temporary file, the record upserts (host_domain,        *)
(* setup_date_storage, register_agent, agents_create, the environment      *)
(* seed) and the generated Traefik artifact.                               *)
(*                                                                         *)
(* Python str values are sequences of tokens: one character per token      *)
(* where the code looks inside the string (domains, agent names), one      *)
(* token for the whole string where it does not.  Python None, in a str    *)
(* position, is the value None below; in an int position it is 0 (the code *)
(* only ever tests such values for truthiness).                            *)
(***************************************************************************)
EXTENDS Integers, Sequences, FiniteSets, TLC

\* ------------------------------------------------------------------ bounds
NumThreads == 2
MaxOps     == 2
MaxClock   == 1
MaxFaults  == 1

Threads == 1..NumThreads

\* ----------------------------------------------------------- str helpers
None == <<"None">>

Truthy(s) == s # None /\ s # <<>>

StrOr(a, b) == IF Truthy(a) THEN a ELSE b

IntOr(a, b) == IF a # 0 THEN a ELSE b

Whitespace == {" "}

UpperLetters == {"A", "B", "H", "O"}

LowerLetters == {"a", "b", "c", "h", "o", "p", "t", "e", "g", "n"}

DigitChars == {"0", "1", "2", "3", "4", "5", "6", "7", "8", "9"}

\* str.lower(), character by character
LowerChar(c) ==
  CASE c = "A" -> "a"
    [] c = "B" -> "b"
    [] c = "H" -> "h"
    [] c = "O" -> "o"
    [] OTHER -> c

Lower(s) == [i \in 1..Len(s) |-> LowerChar(s[i])]

\* str.isalnum(), character by character
IsAlnum(c) == c \in UpperLetters \cup LowerLetters \cup DigitChars

\* code point of a character; a token of several characters is ordered by
\* its first one
Ord(c) ==
  CASE c = " " -> 32
    [] c = "-" -> 45
    [] c = "." -> 46
    [] c = "/" -> 47
    [] c = ":" -> 58
    [] c = "@" -> 64
    [] c = "a" -> 97
    [] c = "b" -> 98
    [] c = "c" -> 99
    [] c = "h" -> 104
    [] c = "p" -> 112
    [] c = "t" -> 116
    [] c = "fastmcp" -> 102
    [] c = "http" -> 104
    [] c = "https" -> 104
    [] c = "svc-" -> 115
    [] c = "twinboss_api" -> 116
    [] OTHER -> 127

RECURSIVE StrLess(_, _)
\* s < t for Python str
StrLess(s, t) ==
  IF t = <<>> THEN FALSE
  ELSE IF s = <<>> THEN TRUE
  ELSE IF Ord(Head(s)) # Ord(Head(t)) THEN Ord(Head(s)) < Ord(Head(t))
  ELSE StrLess(Tail(s), Tail(t))

RECURSIVE LStrip(_, _)
LStrip(s, chars) ==
  IF s # <<>> /\ Head(s) \in chars THEN LStrip(Tail(s), chars) ELSE s

RECURSIVE RStrip(_, _)
\* str.rstrip(chars)
RStrip(s, chars) ==
  IF s # <<>> /\ s[Len(s)] \in chars THEN RStrip(SubSeq(s, 1, Len(s) - 1), chars) ELSE s

\* str.strip()
Strip(s) == RStrip(LStrip(s, Whitespace), Whitespace)

\* first index i >= from with s[i] in chars, or 0: str.find
Find(s, chars, from) ==
  LET hits == {i \in from..Len(s) : s[i] \in chars}
  IN IF hits = {} THEN 0 ELSE CHOOSE i \in hits : \A j \in hits : i <= j

\* last index with s[i] in chars, or 0: str.rfind
RFind(s, chars) ==
  LET hits == {i \in 1..Len(s) : s[i] \in chars}
  IN IF hits = {} THEN 0 ELSE CHOOSE i \in hits : \A j \in hits : i >= j

\* "//" in s
HasDoubleSlash(s) == \E i \in 1..(Len(s) - 1) : s[i] = "/" /\ s[i + 1] = "/"

\* str.replace(".", "-")
DotsToDashes(s) == [i \in 1..Len(s) |-> IF s[i] = "." THEN "-" ELSE s[i]]

IntStr(n) == <<"0", "1", "2", "3", "4", "5", "6", "7", "8", "9">>[n + 1]

\* dict.get(key, default)
Get(d, k, default) == IF k \in DOMAIN d THEN d[k] ELSE default

\* dict.update(other): keys of other win, other keys are kept
Update(d, other) ==
  [k \in DOMAIN d \cup DOMAIN other |-> IF k \in DOMAIN other THEN other[k] ELSE d[k]]

\* ------------------------------------------------------ Domain Normalizer
SchemeChars == UpperLetters \cup LowerLetters \cup DigitChars \cup {"+", "-", "."}

\* urlsplit: what follows the scheme, when the text before the first ":" is one
AfterScheme(url, colon) ==
  IF /\ colon > 1
     /\ url[1] \in UpperLetters \cup LowerLetters
     /\ \A j \in 1..(colon - 1) : url[j] \in SchemeChars
  THEN SubSeq(url, colon + 1, Len(url))
  ELSE url

\* urlsplit: the network location, which follows "//" and ends before the
\* first of "/", "?" and "#" at index stop
Netloc(rest, stop) ==
  IF ~(Len(rest) >= 2 /\ rest[1] = "/" /\ rest[2] = "/") THEN <<>>
  ELSE IF stop = 0 THEN SubSeq(rest, 3, Len(rest))
  ELSE SubSeq(rest, 3, stop - 1)

NetlocOf(rest) == Netloc(rest, Find(rest, {"/", "?", "#"}, 3))

\* the hostname property: after the last "@", before the first ":"
HostInfo(netloc) == SubSeq(netloc, RFind(netloc, {"@"}) + 1, Len(netloc))

BeforePort(hostinfo, portSep) ==
  IF portSep = 0 THEN hostinfo ELSE SubSeq(hostinfo, 1, portSep - 1)

HostnameOf(hostname) == IF hostname = <<>> THEN None ELSE Lower(hostname)

HostOfInfo(hostinfo) == HostnameOf(BeforePort(hostinfo, Find(hostinfo, {":"}, 1)))

\* urllib.parse.urlparse(url).hostname; None when there is no host
UrlHostname(url) == HostOfInfo(HostInfo(NetlocOf(AfterScheme(url, Find(url, {":"}, 1)))))

ValueError == <<"ValueError">>

HttpPrefix == <<"h", "t", "t", "p", ":", "/", "/">>

\* line 107-108: a scheme is put in front when the text has no "//"
Candidate(stripped) ==
  IF HasDoubleSlash(stripped) THEN stripped ELSE HttpPrefix \o stripped

\* lines 110-113
HostOrError(host) == IF ~Truthy(host) THEN ValueError ELSE Lower(host)

\* _normalize_domain: the canonical hostname, or ValueError when it raises
_normalize_domain(domain) ==
  IF ~Truthy(domain) THEN ValueError
  ELSE HostOrError(UrlHostname(Candidate(Strip(domain))))

\* ----------------------------------------------------------------- slugs
RECURSIVE SplitDash(_, _)
\* str.split("-"): cur is the segment being read
SplitDash(s, cur) ==
  IF s = <<>> THEN <<cur>>
  ELSE IF Head(s) = "-" THEN <<cur>> \o SplitDash(Tail(s), <<>>)
  ELSE SplitDash(Tail(s), Append(cur, Head(s)))

RECURSIVE JoinDash(_)
\* "-".join(parts)
JoinDash(parts) ==
  IF parts = <<>> THEN <<>>
  ELSE IF Len(parts) = 1 THEN parts[1]
  ELSE parts[1] \o <<"-">> \o JoinDash(Tail(parts))

\* line 129: lower case, every other character turned into "-"
Dashed(low) == [i \in 1..Len(low) |-> IF IsAlnum(low[i]) THEN low[i] ELSE "-"]

\* line 131: the fallback for a name without letters and digits
SlugOr(joined, now) ==
  IF joined # <<>> THEN joined ELSE <<"a", "g", "e", "n", "t", "-", IntStr(now)>>

\* _slugify(name) when time.time() is now
_slugify(name, now) ==
  SlugOr(JoinDash(SelectSeq(SplitDash(Dashed(Lower(name)), <<>>),
                            LAMBDA segment : segment # <<>>)),
         now)

\* ------------------------------------------------------- state document
STATE_FILE == "state"

tmp_path == "tmp"

SERVICE_DEFAULT_PORTS ==
  [s \in {<<"twinboss_api">>, <<"fastmcp">>, <<"mcpjungle">>, <<"docker_mcp">>} |->
     CASE s = <<"twinboss_api">> -> 9000
       [] s = <<"fastmcp">> -> 8080
       [] s = <<"mcpjungle">> -> 4000
       [] s = <<"docker_mcp">> -> 8090]

\* SERVICE_DEFAULT_PORTS.get(service, default)
DefaultPort(service, default) ==
  IF service \in DOMAIN SERVICE_DEFAULT_PORTS THEN SERVICE_DEFAULT_PORTS[service] ELSE default

EmptyDict == [k \in {} |-> 0]

\* _default_state() when _now_iso() is now
_default_state(now) ==
  [meta    |-> [created_at |-> now, updated_at |-> now, revision |-> 0],
   domains |-> <<>>,
   storage |-> [date_app |-> [status |-> <<"uninitialized">>, updated_at |-> now]],
   agents  |-> EmptyDict]

\* what a file holds: a complete JSON document, the first bytes of one,
\* bytes that are not UTF-8, or nothing (the path does not exist)
Json(doc) == [kind |-> "json", doc |-> doc]

Truncated(doc) == [kind |-> "truncated", doc |-> doc]

BadUtf8 == [kind |-> "bad_utf8"]

Absent == [kind |-> "absent"]

\* lines 52-54: the document is dumped into the temporary file
WriteInPlace(files, content) == [files EXCEPT ![STATE_FILE] = content]

WriteTmpFile(files, content) == [files EXCEPT ![tmp_path] = content]

\* line 55: tmp_path.replace(STATE_FILE)
ReplaceStateFile(files) == [files EXCEPT ![STATE_FILE] = files[tmp_path], ![tmp_path] = Absent]

\* _write_state_unlocked run to its end
_write_state_unlocked(files, doc) == ReplaceStateFile(WriteTmpFile(files, Json(doc)))

\* a reader that never opens STATE_FILE
ReadAlwaysDefault(files, now) ==
  [raised |-> FALSE, doc |-> _default_state(now), files |-> files]

\* _read_state_unlocked: the document it returns, the files it leaves and
\* whether it raised instead (UnicodeDecodeError is a ValueError that is
\* neither a JSONDecodeError nor an OSError, so line 64 does not catch it)
_read_state_unlocked(files, now) ==
  LET f == files[STATE_FILE]
  IN CASE f.kind = "absent" ->
            [raised |-> FALSE, doc |-> _default_state(now), files |-> files]
       [] f.kind = "json" ->
            [raised |-> FALSE, doc |-> f.doc, files |-> files]
       [] f.kind = "truncated" ->
            [raised |-> FALSE, doc |-> _default_state(now),
             files |-> _write_state_unlocked(files, _default_state(now))]
       [] OTHER ->
            [raised |-> TRUE, doc |-> _default_state(now), files |-> files]

\* a meta block that only gets its new updated_at
UpdateMetaNoBump(state, ts) ==
  [state EXCEPT !.meta = Update(state.meta, [updated_at |-> ts])]

\* a meta block with its new revision and the counts it had
UpdateMetaStaleCounts(state, ts) ==
  [state EXCEPT !.meta =
     Update(state.meta, [updated_at |-> ts,
                         revision   |-> Get(state.meta, "revision", 0) + 1])]

\* lines 90-98 of update_state: the meta block recomputed at time ts
UpdateMeta(state, ts) ==
  LET meta    == state.meta
      storage == state.storage.date_app
  IN [state EXCEPT !.meta =
        Update(meta,
               [created_at          |-> Get(meta, "created_at", ts),
                updated_at          |-> ts,
                revision            |-> Get(meta, "revision", 0) + 1,
                domain_count        |-> Len(state.domains),
                agent_count         |-> Cardinality(DOMAIN state.agents),
                date_storage_status |-> Get(storage, "status", <<"uninitialized">>)])]

\* ------------------------------------------------------------ sorting
RECURSIVE InsertByDomain(_, _)
\* e goes after every element whose key is <= its own: a stable sort
InsertByDomain(sorted, e) ==
  IF sorted = <<>> THEN <<e>>
  ELSE IF StrLess(e.domain, Head(sorted).domain) THEN <<e>> \o sorted
  ELSE <<Head(sorted)>> \o InsertByDomain(Tail(sorted), e)

\* a list left in the order of insertion
Unsorted(list) == list

RECURSIVE SortByDomain(_)
\* list.sort(key=lambda item: item["domain"])
SortByDomain(list) ==
  IF list = <<>> THEN <<>>
  ELSE InsertByDomain(SortByDomain(SubSeq(list, 1, Len(list) - 1)), list[Len(list)])

RECURSIVE SortedStrs(_)
\* sorted(set_of_str)
SortedStrs(strs) ==
  IF strs = {} THEN <<>>
  ELSE LET least == CHOOSE s \in strs : \A t \in strs : ~StrLess(t, s)
       IN <<least>> \o SortedStrs(strs \ {least})

SeqToSet(list) == {list[i] : i \in 1..Len(list)}

\* _normalize_domains: invalid entries dropped, the rest sorted and unique
_normalize_domains(domains) ==
  SortedStrs({_normalize_domain(d) : d \in SeqToSet(domains)} \ {ValueError})

\* --------------------------------------------------- record upserts
\* hashlib.blake2s(domain).hexdigest(): a fingerprint that depends on the
\* domain alone
DomainId(domain) == <<"blake2s:">> \o domain

\* index of the first record of the list whose domain is the given one, or 0
FirstIndexOf(domains, normalized) ==
  LET hits == {i \in 1..Len(domains) : Get(domains[i], "domain", None) = normalized}
  IN IF hits = {} THEN 0 ELSE CHOOSE i \in hits : \A j \in hits : i <= j

\* lines 403-409 of host_domain: the values the closure mut captures
HostLocals(payload, ts) ==
  [normalized     |-> _normalize_domain(payload.domain),
   target_service |-> payload.target_service,
   target_url     |-> IF Truthy(payload.target_url)
                      THEN RStrip(payload.target_url, {"/"}) ELSE None,
   target_port    |-> IF Truthy(payload.target_service)
                      THEN IntOr(payload.target_port, DefaultPort(payload.target_service, 80))
                      ELSE payload.target_port,
   ts             |-> ts]

\* a handler without the checks of lines 397-402
HostAcceptsAll(payload) == FALSE

\* lines 397-402 of host_domain: the request is refused with HTTP 400
HostRejects(payload) ==
  \/ ~Truthy(payload.target_service) /\ ~Truthy(payload.target_url)
  \/ _normalize_domain(payload.domain) = ValueError

\* lines 414-419: the record a hostname gets when it has none
NewEntry(loc) ==
  [domain     |-> loc.normalized,
   id         |-> DomainId(loc.normalized),
   created_at |-> loc.ts,
   history    |-> <<>>]

\* lines 420-432: the fields of the request replace those of the record
WithRequest(entry, payload, loc) ==
  Update(entry,
         [target_service    |-> loc.target_service,
          target_port       |-> loc.target_port,
          target_scheme     |-> StrOr(payload.target_scheme, <<"http">>),
          target_url        |-> loc.target_url,
          entrypoint        |-> StrOr(payload.entrypoint,
                                 IF payload.auto_ssl THEN <<"websecure">> ELSE <<"web">>),
          auto_ssl          |-> payload.auto_ssl,
          redirect_to_https |-> payload.redirect_to_https,
          notes             |-> payload.notes,
          updated_at        |-> loc.ts])

\* a history that keeps only the newest entry
WithHistoryReset(record, item) == Update(record, [history |-> <<item>>])

\* lines 433-440, 523-524, 570-571: one more entry in the record's history
WithHistory(record, item) ==
  Update(record, [history |-> Append(Get(record, "history", <<>>), item)])

\* lines 444-445
WithNames(entry) ==
  Update(entry,
         [service_name |-> StrOr(Get(entry, "target_service", None),
                                 Get(entry, "service_name", None)),
          router_name  |-> StrOr(Get(entry, "router_name", None),
                                 DotsToDashes(entry.domain))])

\* lines 441-443 and 446: the record is in the list, the list is sorted
Placed(state, at, entry) ==
  [state  |-> [state EXCEPT !.domains =
                 SortByDomain(IF at # 0 THEN [state.domains EXCEPT ![at] = entry]
                              ELSE Append(state.domains, entry))],
   result |-> entry]

\* host_domain.mut when the first record of the hostname is at index at (0: none)
HostMutAt(state, payload, loc, at) ==
  Placed(state, at,
         WithNames(WithHistory(
           WithRequest(IF at # 0 THEN state.domains[at] ELSE NewEntry(loc), payload, loc),
           [action |-> IF at # 0 THEN <<"updated">> ELSE <<"provisioned">>,
            at     |-> loc.ts,
            target |-> StrOr(loc.target_service, loc.target_url)])))

\* an upsert that never finds the hostname's record
HostMutAlwaysAppends(state, payload, loc) == HostMutAt(state, payload, loc, 0)

\* host_domain.mut: the document after the upsert, and the record returned
HostMut(state, payload, loc) ==
  HostMutAt(state, payload, loc, FirstIndexOf(state.domains, loc.normalized))

\* _collect_domains_from_env over the values found in the environment
_collect_domains_from_env(values) ==
  SortedStrs({_normalize_domain(Strip(v)) : v \in {w \in values : Strip(w) # <<>>}}
             \ {ValueError})

\* lines 222-223 of seed_domains_from_env: the hostnames without a record
SeedMissing(snapshot, domains) ==
  LET existing == {Get(snapshot.domains[i], "domain", None) : i \in 1..Len(snapshot.domains)}
                  \ {None, <<>>}
  IN SelectSeq(domains, LAMBDA d : d \notin existing)

\* the record seed_domains_from_env.mut appends for one hostname
SeedEntry(domain, ts) ==
  [domain            |-> domain,
   id                |-> DomainId(domain),
   created_at        |-> ts,
   updated_at        |-> ts,
   history           |-> <<[action |-> <<"seeded-env">>, at |-> ts,
                            target |-> <<"twinboss_api">>]>>,
   target_service    |-> <<"twinboss_api">>,
   service_name      |-> <<"twinboss_api">>,
   router_name       |-> DotsToDashes(domain),
   target_port       |-> DefaultPort(<<"twinboss_api">>, 9000),
   target_scheme     |-> <<"http">>,
   target_url        |-> None,
   entrypoint        |-> <<"web">>,
   auto_ssl          |-> TRUE,
   redirect_to_https |-> TRUE]

\* seed_domains_from_env.mut
SeedMut(state, missing, ts) ==
  [state  |-> [state EXCEPT !.domains =
                 SortByDomain(state.domains \o [i \in 1..Len(missing) |-> SeedEntry(missing[i], ts)])],
   result |-> [added |-> missing]]

\* a mutator that returns the record without storing it
ProfileNotStored(state, record) == [state |-> state, result |-> record]

\* lines 478-479
StoredProfile(state, record) ==
  [state  |-> [state EXCEPT !.storage.date_app = record],
   result |-> record]

\* line 463: storage.get("date_app") or {"created_at": ts}: a profile with
\* no field at all is taken for none
ProfileOrNew(profile, ts) ==
  IF DOMAIN profile # {} THEN profile ELSE [created_at |-> ts]

\* setup_date_storage.mut
StorageMut(state, payload, ts) ==
  StoredProfile(state,
    Update(ProfileOrNew(state.storage.date_app, ts),
           [storage_engine |-> payload.storage_engine,
            primary_region |-> payload.primary_region,
            replicas       |-> payload.replicas,
            retention_days |-> payload.retention_days,
            backup_regions |-> payload.backup_regions,
            analytics      |-> payload.analytics,
            encryption     |-> payload.encryption,
            notes          |-> payload.notes,
            status         |-> <<"ready">>,
            updated_at     |-> ts]))

\* line 500 of register_agent
Capabilities(caps) ==
  SortedStrs({Lower(Strip(c)) : c \in {d \in SeqToSet(caps) : Strip(d) # <<>>}})

\* lines 506-509 and 554-557: the record of the slug, or a new one
AgentRecord(agents, slug, ts) ==
  IF slug \in DOMAIN agents THEN agents[slug] ELSE [created_at |-> ts, history |-> <<>>]

\* an agents map that is made anew with the one record
StoredAlone(state, slug, record) ==
  [state  |-> [state EXCEPT !.agents = [k \in {slug} |-> record]],
   result |-> record]

\* lines 525-526 and 572-573
Stored(state, slug, record) ==
  [state  |-> [state EXCEPT !.agents = Update(state.agents, [k \in {slug} |-> record])],
   result |-> record]

\* lines 510-524 of register_agent.mut
Registered(old, payload, name, slug, ts) ==
  WithHistory(Update(old,
                [name         |-> name,
                 slug         |-> slug,
                 role         |-> payload.role,
                 rights       |-> payload.rights,
                 status       |-> payload.status,
                 endpoint     |-> payload.endpoint,
                 capabilities |-> Capabilities(payload.capabilities),
                 domains      |-> _normalize_domains(payload.domains),
                 updated_at   |-> ts]),
              [action |-> <<"registered">>, at |-> ts])

RegisterAt(state, payload, name, slug, ts) ==
  Stored(state, slug, Registered(AgentRecord(state.agents, slug, ts), payload, name, slug, ts))

\* register_agent.mut, with time.time() = now when it runs
RegisterMut(state, payload, name, ts, now) ==
  RegisterAt(state, payload, name, _slugify(name, now), ts)

\* lines 558-571 of agents_create.mut
Ensured(old, n, slug, ts) ==
  WithHistory(Update(old,
                [name         |-> n,
                 slug         |-> slug,
                 rights       |-> <<"admin">>,
                 role         |-> <<"generalist">>,
                 status       |-> <<"ready">>,
                 capabilities |-> Get(old, "capabilities", <<>>),
                 domains      |-> Get(old, "domains", <<>>),
                 updated_at   |-> ts]),
              [action |-> <<"ensure-admin">>, at |-> ts])

CreateAt(state, n, slug, ts) ==
  Stored(state, slug, Ensured(AgentRecord(state.agents, slug, ts), n, slug, ts))

\* agents_create.mut, with time.time() = now when it runs
CreateMut(state, n, ts, now) == CreateAt(state, n, _slugify(n, now), ts)

\* ------------------------------------- Dynamic Configuration Generator
\* the characters " and backtick of the artifact text
DQuote == "''"

Backtick == "'"

\* str(port)
PortStr(port) ==
  CASE port = 9000 -> "9000"
    [] port = 8080 -> "8080"
    [] port = 4000 -> "4000"
    [] port = 8090 -> "8090"
    [] port = 8443 -> "8443"
    [] port = 80 -> "80"
    [] OTHER -> "0"

\* lines 154-156: the names and the entry channel of one record's router
RouterName(entry) == StrOr(Get(entry, "router_name", None), DotsToDashes(entry.domain))

ServiceName(entry) ==
  StrOr(Get(entry, "service_name", None),
        StrOr(Get(entry, "target_service", None),
              <<"svc-">> \o Get(entry, "id", RouterName(entry))))

EntryPoint(entry) ==
  StrOr(Get(entry, "entrypoint", None),
        IF Get(entry, "auto_ssl", FALSE) THEN <<"websecure">> ELSE <<"web">>)

\* lines 165-172: the server URL of one record
ServerUrl(entry) ==
  LET target_url == Get(entry, "target_url", None)
  IN IF Truthy(target_url) THEN RStrip(target_url, {"/"})
     ELSE LET scheme       == Get(entry, "target_scheme", <<"http">>)
              service_host == Get(entry, "target_service", <<"twinboss_api">>)
              port         == IntOr(Get(entry, "target_port", 0), DefaultPort(service_host, 80))
          IN scheme \o <<"://">> \o service_host \o <<":", PortStr(port)>>

\* a router that gets the redirect on the secure entry channel too
RouterLinesRedirectAll(entry) ==
  << <<"    ">> \o RouterName(entry) \o <<":">>,
     <<"      rule: Host(", Backtick>> \o entry.domain \o <<Backtick, ")">>,
     <<"      entryPoints:">>,
     <<"        - ">> \o EntryPoint(entry),
     <<"      service: ">> \o ServiceName(entry) >>
  \o (IF Get(entry, "redirect_to_https", FALSE)
      THEN << <<"      middlewares:">>, <<"        - redirect-to-https">> >>
      ELSE <<>>)

\* lines 157-164: the lines of one record's router
RouterLines(entry) ==
  << <<"    ">> \o RouterName(entry) \o <<":">>,
     <<"      rule: Host(", Backtick>> \o entry.domain \o <<Backtick, ")">>,
     <<"      entryPoints:">>,
     <<"        - ">> \o EntryPoint(entry),
     <<"      service: ">> \o ServiceName(entry) >>
  \o (IF Get(entry, "redirect_to_https", FALSE) /\ EntryPoint(entry) # <<"websecure">>
      THEN << <<"      middlewares:">>, <<"        - redirect-to-https">> >>
      ELSE <<>>)

RECURSIVE FlatMap(_, _)
FlatMap(Op(_), list) ==
  IF list = <<>> THEN <<>> ELSE Op(Head(list)) \o FlatMap(Op, Tail(list))

\* a generator that forgets routers_written
PlaceholderAlways(routed) ==
  << <<"    placeholder:">>, <<"      rule: HostRegexp(", Backtick, "{any:.+}", Backtick, ")">>,
     <<"      service: noop">> >>

\* lines 174-177: the catch-all router, when no record has a hostname
PlaceholderRouter(routed) ==
  IF routed = <<>>
  THEN << <<"    placeholder:">>, <<"      rule: HostRegexp(", Backtick, "{any:.+}", Backtick, ")">>,
          <<"      service: noop">> >>
  ELSE <<>>

\* the text _write_domain_dynamic_config writes, line by line
ConfigLines(domains) ==
  LET routed      == SelectSeq(domains, LAMBDA e : Truthy(Get(e, "domain", None)))
      middleware  == \E i \in 1..Len(domains) : Get(domains[i], "redirect_to_https", FALSE)
      names       == {ServiceName(routed[i]) : i \in 1..Len(routed)}
      UrlsOf(n)   == {ServerUrl(routed[i]) : i \in {j \in 1..Len(routed) : ServiceName(routed[j]) = n}}
      ServiceLines(n) ==
        << <<"    ">> \o n \o <<":">>, <<"      loadBalancer:">>, <<"        servers:">> >>
        \o [i \in 1..Cardinality(UrlsOf(n)) |->
              <<"          - url: ", DQuote>> \o SortedStrs(UrlsOf(n))[i] \o <<DQuote>>]
  IN << <<"http:">> >>
     \o (IF middleware
         THEN << <<"  middlewares:">>, <<"    redirect-to-https:">>,
                 <<"      redirectScheme:">>, <<"        scheme: https">>,
                 <<"        permanent: true">> >>
         ELSE <<>>)
     \o << <<"  routers:">> >>
     \o FlatMap(RouterLines, routed)
     \o PlaceholderRouter(routed)
     \o << <<"  services:">> >>
     \o (IF names # {}
         THEN FlatMap(ServiceLines, SortedStrs(names))
         ELSE << <<"    noop:">>, <<"      loadBalancer:">>, <<"        servers:">>,
                 <<"          - url: ", DQuote, "http://127.0.0.1:9000", DQuote>> >>)

\* _write_domain_dynamic_config: the artifact file after the call
_write_domain_dynamic_config(domains) == [exists |-> TRUE, lines |-> ConfigLines(domains)]

\* ------------------------------------------------------------ requests
\* DomainHostRequest with the defaults of lines 354-363
DomainHostRequest(domain, target_service, target_url) ==
  [domain            |-> domain,
   target_service    |-> target_service,
   target_port       |-> 0,
   target_scheme     |-> <<"http">>,
   target_url        |-> target_url,
   entrypoint        |-> <<"web">>,
   auto_ssl          |-> TRUE,
   redirect_to_https |-> TRUE,
   notes             |-> None]

\* DateStorageRequest with the defaults of lines 366-374
DateStorageRequest(storage_engine, backup_regions) ==
  [storage_engine |-> storage_engine,
   primary_region |-> <<"us-east-1">>,
   replicas       |-> 1,
   retention_days |-> 365,
   backup_regions |-> backup_regions,
   analytics      |-> FALSE,
   encryption     |-> TRUE,
   notes          |-> None]

\* AgentRegistration with the defaults of lines 377-384
AgentRegistration(name, capabilities, domains) ==
  [name         |-> name,
   role         |-> <<"generalist">>,
   rights       |-> <<"member">>,
   status       |-> <<"active">>,
   endpoint     |-> None,
   capabilities |-> capabilities,
   domains      |-> domains]

\* the requests the callers choose from: every request of a kind when the
\* run is about that kind of record, two of them otherwise
HostRequests ==
  { DomainHostRequest(<<"a", ".", "c">>, <<"twinboss_api">>, None),
    DomainHostRequest(<<"H", ":", "/", "/", "A", ".", "c", "/">>, <<"twinboss_api">>, None),
    DomainHostRequest(<<" ", "b", ".", "c">>, None, <<"http://up:8000", "/">>),
    DomainHostRequest(<<"a", ".", "c">>, None, None),
    DomainHostRequest(<<"/", "/">>, <<"twinboss_api">>, None) }

CoreHostRequests ==
  { DomainHostRequest(<<"a", ".", "c">>, <<"twinboss_api">>, None),
    DomainHostRequest(<<"a", ".", "c">>, None, None) }

\* two hostnames and two agent names, for the runs about what a mutation
\* leaves alone
FrameHostRequests ==
  { DomainHostRequest(<<"a", ".", "c">>, <<"twinboss_api">>, None),
    DomainHostRequest(<<"b", ".", "c">>, None, <<"http://up:8000", "/">>) }

FrameAgentRequests ==
  { AgentRegistration(<<"o", "p", " ", "b">>, << <<"b">> >>, <<>>),
    AgentRegistration(<<"o", "p", " ", "c">>, <<>>, << <<"A", ".", "c">> >>) }

StoreHostRequests == { DomainHostRequest(<<"a", ".", "c">>, <<"twinboss_api">>, None) }

StorageRequests ==
  { DateStorageRequest(<<"postgres">>, <<>>),
    DateStorageRequest(<<"sqlite">>, << <<"eu-west-1">> >>) }

CoreStorageRequests == { DateStorageRequest(<<"postgres">>, <<>>) }

AgentRequests ==
  { AgentRegistration(<<"O", "p", " ", "B", "!">>, << <<"A">> >>, << <<"A", ".", "c">> >>),
    AgentRegistration(<<"o", "p", " ", "b">>, << <<"b">> >>, <<>>),
    AgentRegistration(<<"!">>, <<>>, <<>>),
    AgentRegistration(<<" ">>, <<>>, <<>>) }

CoreAgentRequests ==
  { AgentRegistration(<<"o", "p", " ", "b">>, << <<"b">> >>, <<>>),
    AgentRegistration(<<" ">>, <<>>, <<>>) }

CreateRequests == { [name |-> <<"o", "p", "-", "b">>], [name |-> <<>>] }

CoreCreateRequests == { [name |-> <<"o", "p", "-", "b">>] }

\* the values of DOMAINS and DOMAIN_* in the environment
EnvValues == { <<"A", ".", "c">> }

\* ---------------------------------------------------------------- state
VARIABLES
  scope,      \* the kind of record the run is about
  faults,     \* crashes and corruptions of the state file so far
  files,      \* STATE_FILE and its temporary file
  artifact,   \* TRAEFIK_DYNAMIC_PATH
  lock,       \* _state_lock: 0 when free, else the thread holding it
  clock,      \* the time _now_iso() and time.time() read
  pc,         \* where each thread is in the operation it runs
  req,        \* the operation each thread runs, with its payload
  loc,        \* the local variables of that operation
  ret,        \* the response of the operation that ended last
  published,  \* the messages put on _preview_queue
  ops,        \* operations started so far
  commits,    \* update_state calls that have returned
  returned    \* highest revision an update_state call has returned

vars == <<scope, faults, files, artifact, lock, clock, pc, req, loc, ret, published, ops, commits, returned>>

NoRequest == [op |-> "none"]

NoLocals == [none |-> TRUE]

NoResponse == [http |-> 0]

Http400 == [http |-> 400]

Http500 == [http |-> 500]

Max(a, b) == IF a >= b THEN a ELSE b

\* the document in STATE_FILE when it holds one
Persisted == files[STATE_FILE].doc

Revision(doc) == Get(doc.meta, "revision", 0)

HostPool ==
  CASE scope = "domains" -> HostRequests
    [] scope = "store" -> StoreHostRequests
    [] scope = "frame" -> FrameHostRequests
    [] OTHER -> CoreHostRequests

StoragePool == IF scope = "storage" THEN StorageRequests ELSE CoreStorageRequests

AgentPool ==
  CASE scope = "agents" -> AgentRequests
    [] scope = "frame" -> FrameAgentRequests
    [] OTHER -> CoreAgentRequests

CreatePool == IF scope = "agents" THEN CreateRequests ELSE CoreCreateRequests

\* line 255: _ensure_state_file() on an empty data directory
InitScope(s) ==
  /\ scope = s
  /\ faults = 0
  /\ files = [f \in {STATE_FILE, tmp_path} |->
                IF f = STATE_FILE THEN Json(_default_state(0)) ELSE Absent]
  /\ artifact = [exists |-> FALSE, lines |-> <<>>]
  /\ lock = 0
  /\ clock = 0
  /\ pc = [t \in Threads |-> "idle"]
  /\ req = [t \in Threads |-> NoRequest]
  /\ loc = [t \in Threads |-> NoLocals]
  /\ ret = NoResponse
  /\ published = <<>>
  /\ ops = 0
  /\ commits = 0
  /\ returned = 0

Init == InitScope("all")

\* a lock that excludes nobody
CanAcquireAlways(l) == TRUE

\* with _state_lock: the lock can be taken when no thread holds it
CanAcquire(l) == l = 0

\* the times the clock can show when it is read next: it never runs back
Later == clock..MaxClock

\* an operation starts on a thread of control (a handler, a worker that
\* imports the module, a caller of read_state); they run the same code, so
\* it is always the first idle one.  Steps of different threads interleave
\* wherever the code takes no lock.
Begin(t) ==
  /\ pc[t] = "idle"
  /\ \A u \in Threads : u < t => pc[u] # "idle"
  /\ ops < MaxOps
  /\ ops' = ops + 1

\* thread t goes on to the given place of its operation
Goto(t, label, request, locals) ==
  /\ pc' = [pc EXCEPT ![t] = label]
  /\ req' = [req EXCEPT ![t] = request]
  /\ loc' = [loc EXCEPT ![t] = locals]
  /\ ret' = ret

\* the operation of thread t is over with this response
Finish(t, response) ==
  /\ pc' = [pc EXCEPT ![t] = "idle"]
  /\ req' = [req EXCEPT ![t] = NoRequest]
  /\ loc' = [loc EXCEPT ![t] = NoLocals]
  /\ ret' = response

\* a host_domain request arrives
HostCall(t) ==
  \E payload \in HostPool :
    /\ Begin(t)
    /\ Goto(t, "host", [op |-> "host_domain", payload |-> payload], NoLocals)
    /\ UNCHANGED <<scope, faults, files, artifact, lock, clock, published, commits, returned>>

\* host_domain, lines 397-402: HTTP 400, nothing else happens
HostReject(t) ==
  /\ pc[t] = "host"
  /\ HostRejects(req[t].payload)
  /\ Finish(t, Http400)
  /\ UNCHANGED <<scope, faults, files, artifact, lock, clock, published, ops, commits, returned>>

\* host_domain, lines 397-409: up to the call of update_state
HostAccept(t) ==
  /\ pc[t] = "host"
  /\ ~HostRejects(req[t].payload)
  /\ \E now \in Later :
       /\ clock' = now
       /\ Goto(t, "lock", req[t], HostLocals(req[t].payload, now))
  /\ UNCHANGED <<scope, faults, files, artifact, lock, published, ops, commits, returned>>

\* setup_date_storage, lines 457-459
StorageCall(t) ==
  \E payload \in StoragePool :
    /\ Begin(t)
    /\ \E now \in Later :
         /\ clock' = now
         /\ Goto(t, "lock", [op |-> "setup_date_storage", payload |-> payload], [ts |-> now])
    /\ UNCHANGED <<scope, faults, files, artifact, lock, published, commits, returned>>

\* register_agent, lines 496-498: HTTP 400 for a blank name
RegisterReject(t) ==
  \E payload \in AgentPool :
    /\ Strip(payload.name) = <<>>
    /\ Begin(t)
    /\ Finish(t, Http400)
    /\ UNCHANGED <<scope, faults, files, artifact, lock, clock, published, commits, returned>>

\* register_agent, lines 496-501
RegisterAccept(t) ==
  \E payload \in AgentPool :
    /\ Strip(payload.name) # <<>>
    /\ Begin(t)
    /\ \E now \in Later :
         /\ clock' = now
         /\ Goto(t, "lock", [op |-> "register_agent", payload |-> payload],
                 [name |-> Strip(payload.name), ts |-> now])
    /\ UNCHANGED <<scope, faults, files, artifact, lock, published, commits, returned>>

\* agents_create, lines 548-549
CreateCall(t) ==
  \E body \in CreatePool :
    /\ Begin(t)
    /\ \E now \in Later :
         /\ clock' = now
         /\ Goto(t, "lock", [op |-> "agents_create", payload |-> body],
                 [n  |-> StrOr(Strip(body.name), <<"a", "g", "e", "n", "t", "-", IntStr(now)>>),
                  ts |-> now])
    /\ UNCHANGED <<scope, faults, files, artifact, lock, published, commits, returned>>

\* seed_domains_from_env, lines 218-220
SeedCall(t) ==
  /\ Begin(t)
  /\ IF _collect_domains_from_env(EnvValues) = <<>>
     THEN Finish(t, NoResponse)
     ELSE Goto(t, "seed_read", [op |-> "seed_domains_from_env"],
               [domains |-> _collect_domains_from_env(EnvValues)])
  /\ UNCHANGED <<scope, faults, files, artifact, lock, clock, published, commits, returned>>

\* seed_domains_from_env when read_state has returned, lines 222-226
SeedSnapshot(t, read, now) ==
  /\ files' = read.files
  /\ IF read.raised THEN Finish(t, Http500)
     ELSE IF SeedMissing(read.doc, loc[t].domains) = <<>> THEN Finish(t, NoResponse)
     ELSE Goto(t, "lock", req[t],
               [missing |-> SeedMissing(read.doc, loc[t].domains), ts |-> now])

\* seed_domains_from_env, lines 221-226: read_state and the missing hostnames
SeedRead(t) ==
  /\ pc[t] = "seed_read"
  /\ CanAcquire(lock)
  /\ \E now \in Later :
       /\ clock' = now
       /\ SeedSnapshot(t, _read_state_unlocked(files, now), now)
  /\ UNCHANGED <<scope, faults, artifact, lock, published, ops, commits, returned>>

\* a caller of read_state arrives at line 82
ReadCall(t) ==
  /\ Begin(t)
  /\ Goto(t, "read", [op |-> "read_state"], [floor |-> returned])
  /\ UNCHANGED <<scope, faults, files, artifact, lock, clock, published, commits, returned>>

\* the times _read_state_unlocked can read: it reads the clock only to
\* make the default document
ReadTimes == IF files[STATE_FILE].kind = "json" THEN {clock} ELSE Later

\* read_state when _read_state_unlocked has returned
ReadReturn(t, read) ==
  /\ files' = read.files
  /\ IF read.raised THEN Finish(t, Http500)
     ELSE Finish(t, [http |-> 200, state |-> read.doc, floor |-> loc[t].floor])

\* read_state, lines 82-83
ReadState(t) ==
  /\ pc[t] = "read"
  /\ CanAcquire(lock)
  /\ \E now \in ReadTimes :
       /\ clock' = now
       /\ ReadReturn(t, _read_state_unlocked(files, now))
  /\ UNCHANGED <<scope, faults, artifact, lock, published, ops, commits, returned>>

\* the mutator a thread hands to update_state, applied to the document read
Mutate(request, locals, doc, now) ==
  CASE request.op = "host_domain" -> HostMut(doc, request.payload, locals)
    [] request.op = "setup_date_storage" -> StorageMut(doc, request.payload, locals.ts)
    [] request.op = "register_agent" ->
         RegisterMut(doc, request.payload, locals.name, locals.ts, now)
    [] request.op = "agents_create" -> CreateMut(doc, locals.n, locals.ts, now)
    [] OTHER -> SeedMut(doc, locals.missing, locals.ts)

\* lines 88-98 of update_state: the locals after the mutator has run on the
\* document read and the meta block is recomputed
Mutated(doc, mut, now) ==
  [base |-> doc, state |-> UpdateMeta(mut.state, now), result |-> mut.result]

\* update_state when _read_state_unlocked has returned
AcquireRead(t, read, now) ==
  /\ files' = read.files
  /\ IF read.raised
     THEN /\ Finish(t, Http500)
          /\ lock' = lock
     ELSE /\ lock' = t
          /\ Goto(t, "write_tmp", req[t],
                  Mutated(read.doc, Mutate(req[t], loc[t], read.doc, now), now))

\* update_state, lines 87-98: the lock is taken, the document is read, the
\* mutator runs and the meta block is recomputed, all in memory
Acquire(t) ==
  /\ pc[t] = "lock"
  /\ CanAcquire(lock)
  /\ \E now \in Later :
       /\ clock' = now
       /\ AcquireRead(t, _read_state_unlocked(files, now), now)
  /\ UNCHANGED <<scope, faults, artifact, published, ops, commits, returned>>

\* _write_state_unlocked, lines 51-54: the temporary file is written
WriteTmp(t) ==
  /\ pc[t] = "write_tmp"
  /\ files' = WriteTmpFile(files, Json(loc[t].state))
  /\ Goto(t, "replace", req[t], loc[t])
  /\ UNCHANGED <<scope, faults, artifact, lock, clock, published, ops, commits, returned>>

\* a lock that its holder keeps when update_state returns
StillHeld(holder) == holder

\* the with block of update_state is left: no thread holds _state_lock
Released(holder) == 0

\* line 55 and line 100: the replace, then update_state returns copies and
\* the lock is released
Replace(t) ==
  /\ pc[t] = "replace"
  /\ files' = ReplaceStateFile(files)
  /\ lock' = Released(t)
  /\ commits' = commits + 1
  /\ returned' = Max(returned, Revision(loc[t].state))
  /\ Goto(t, IF req[t].op \in {"host_domain", "seed_domains_from_env"}
             THEN "config" ELSE "publish",
          req[t], [state |-> loc[t].state, result |-> loc[t].result])
  /\ UNCHANGED <<scope, faults, artifact, clock, published, ops>>

\* what each handler puts on the preview queue
Message(request, result) ==
  CASE request.op = "host_domain" ->
         <<"domains:">>
         \o (IF result.history[Len(result.history)].action = <<"provisioned">>
             THEN <<"provisioned">> ELSE <<"updated">>)
         \o <<":">> \o result.domain
    [] request.op = "setup_date_storage" -> <<"storage:date:ready">>
    [] request.op = "register_agent" -> <<"agent:register:">> \o result.slug
    [] OTHER -> <<"agent:create:">> \o result.slug

\* what each handler returns
Response(request, state, result) ==
  CASE request.op = "host_domain" ->
         [http |-> 200, domain |-> result, revision |-> Revision(state)]
    [] request.op = "setup_date_storage" ->
         [http |-> 200, storage |-> result, revision |-> Revision(state)]
    [] request.op = "register_agent" -> [http |-> 200, agent |-> result]
    [] OTHER ->
         [http |-> 200, created |-> result.name, rights |-> result.rights,
          status |-> result.status, slug |-> result.slug]

\* lines 449 and 252: the artifact is rewritten from the returned document
WriteConfig(t) ==
  /\ pc[t] = "config"
  /\ artifact' = _write_domain_dynamic_config(loc[t].state.domains)
  /\ IF req[t].op = "seed_domains_from_env"
     THEN Finish(t, NoResponse)
     ELSE Goto(t, "publish", req[t], loc[t])
  /\ UNCHANGED <<scope, faults, files, lock, clock, published, ops, commits, returned>>

\* await publish(...), then the handler returns
Publish(t) ==
  /\ pc[t] = "publish"
  /\ published' = Append(published, Message(req[t], loc[t].result))
  /\ Finish(t, Response(req[t], loc[t].state, loc[t].result))
  /\ UNCHANGED <<scope, faults, files, artifact, lock, clock, ops, commits, returned>>

\* _ensure_state_file, lines 70-78
_ensure_state_file(fs, now) ==
  IF fs[STATE_FILE].kind = "absent" THEN _write_state_unlocked(fs, _default_state(now))
  ELSE LET read == _read_state_unlocked(fs, now)
       IN IF read.raised THEN _write_state_unlocked(fs, _default_state(now))
          ELSE read.files

\* a lock that stays with its holder when an exception leaves the block
HeldOnRaise(holder) == holder

\* an exception leaves the with block of update_state: the lock is free
ReleasedOnRaise(holder) == 0

\* lines 53-54 raise: the temporary file could not be opened, or the dump
\* stopped part way; the exception leaves update_state and the handler
WriteTmpFail(t) ==
  /\ pc[t] = "write_tmp"
  /\ \E content \in {files[tmp_path], Truncated(loc[t].state)} :
       files' = WriteTmpFile(files, content)
  /\ lock' = ReleasedOnRaise(t)
  /\ Finish(t, Http500)
  /\ UNCHANGED <<scope, faults, artifact, clock, published, ops, commits, returned>>

\* line 55 raises: the replace did not happen
ReplaceFail(t) ==
  /\ pc[t] = "replace"
  /\ lock' = ReleasedOnRaise(t)
  /\ Finish(t, Http500)
  /\ UNCHANGED <<scope, faults, files, artifact, clock, published, ops, commits, returned>>

\* the process is killed, a thread that was writing the temporary file
\* leaves it part written, and the module is loaded again up to line 255
Crash ==
  /\ faults < MaxFaults
  /\ faults' = faults + 1
  /\ \E left \in {files} \cup {WriteTmpFile(files, Truncated(loc[t].state)) :
                                t \in {u \in Threads : pc[u] = "write_tmp"}} :
       \E now \in (IF left[STATE_FILE].kind = "json" THEN {clock} ELSE Later) :
         /\ clock' = now
         /\ files' = _ensure_state_file(left, now)
  /\ lock' = 0
  /\ pc' = [t \in Threads |-> "idle"]
  /\ req' = [t \in Threads |-> NoRequest]
  /\ loc' = [t \in Threads |-> NoLocals]
  /\ ret' = NoResponse
  /\ published' = <<>>
  /\ UNCHANGED <<scope, artifact, ops, commits, returned>>

\* something outside the program truncates STATE_FILE or overwrites it
\* with bytes that are not UTF-8
Corrupt ==
  /\ faults < MaxFaults
  /\ faults' = faults + 1
  /\ files[STATE_FILE].kind = "json"
  /\ \E content \in {Truncated(files[STATE_FILE].doc), BadUtf8} :
       files' = [files EXCEPT ![STATE_FILE] = content]
  /\ UNCHANGED <<scope, artifact, lock, clock, pc, req, loc, ret, published, ops, commits, returned>>

Next ==
  \/ \E t \in Threads : HostCall(t)
  \/ \E t \in Threads : HostReject(t)
  \/ \E t \in Threads : HostAccept(t)
  \/ \E t \in Threads : StorageCall(t)
  \/ \E t \in Threads : RegisterReject(t)
  \/ \E t \in Threads : RegisterAccept(t)
  \/ \E t \in Threads : CreateCall(t)
  \/ \E t \in Threads : SeedCall(t)
  \/ \E t \in Threads : SeedRead(t)
  \/ \E t \in Threads : ReadCall(t)
  \/ \E t \in Threads : ReadState(t)
  \/ \E t \in Threads : Acquire(t)
  \/ \E t \in Threads : WriteTmp(t)
  \/ \E t \in Threads : Replace(t)
  \/ \E t \in Threads : WriteConfig(t)
  \/ \E t \in Threads : Publish(t)

Spec == Init /\ [][Next]_vars

\* the operations on domain records
InitDomains == InitScope("domains")

NextDomains ==
  \/ \E t \in Threads : HostCall(t)
  \/ \E t \in Threads : HostReject(t)
  \/ \E t \in Threads : HostAccept(t)
  \/ \E t \in Threads : SeedCall(t)
  \/ \E t \in Threads : SeedRead(t)
  \/ \E t \in Threads : ReadCall(t)
  \/ \E t \in Threads : ReadState(t)
  \/ \E t \in Threads : Acquire(t)
  \/ \E t \in Threads : WriteTmp(t)
  \/ \E t \in Threads : Replace(t)
  \/ \E t \in Threads : WriteConfig(t)
  \/ \E t \in Threads : Publish(t)

SpecDomains == InitDomains /\ [][NextDomains]_vars

\* the operations on agent records
InitAgents == InitScope("agents")

NextAgents ==
  \/ \E t \in Threads : RegisterReject(t)
  \/ \E t \in Threads : RegisterAccept(t)
  \/ \E t \in Threads : CreateCall(t)
  \/ \E t \in Threads : ReadCall(t)
  \/ \E t \in Threads : ReadState(t)
  \/ \E t \in Threads : Acquire(t)
  \/ \E t \in Threads : WriteTmp(t)
  \/ \E t \in Threads : Replace(t)
  \/ \E t \in Threads : Publish(t)

SpecAgents == InitAgents /\ [][NextAgents]_vars

\* update_state when writes fail and the process is killed and restarted
InitStore == InitScope("store")

NextStore ==
  \/ \E t \in Threads : HostCall(t)
  \/ \E t \in Threads : HostAccept(t)
  \/ \E t \in Threads : ReadCall(t)
  \/ \E t \in Threads : ReadState(t)
  \/ \E t \in Threads : Acquire(t)
  \/ \E t \in Threads : WriteTmp(t)
  \/ \E t \in Threads : Replace(t)
  \/ \E t \in Threads : WriteConfig(t)
  \/ \E t \in Threads : Publish(t)

NextFault ==
  \/ NextStore
  \/ \E t \in Threads : WriteTmpFail(t)
  \/ \E t \in Threads : ReplaceFail(t)
  \/ Crash

SpecFault == InitStore /\ [][NextFault]_vars

\* update_state and read_state when STATE_FILE is damaged from outside
NextCorrupt ==
  \/ NextStore
  \/ Corrupt

SpecCorrupt == InitStore /\ [][NextCorrupt]_vars

\* ------------------------------------------------------------ properties
\* thread t is between lines 88 and 99 of update_state
InUpdate(t) == pc[t] \in {"write_tmp", "replace"}

\* thread t's update_state returns in this step
Commits(t) == pc[t] = "replace" /\ commits' = commits + 1

\* C1: a step changes the meta.revision of the persisted document by the
\* number of update_state calls that complete in it: by exactly 1 when a
\* mutation (host_domain, setup_date_storage, register_agent, agents_create
\* or a seed that adds domains) is persisted and by 0 otherwise, so after N
\* mutations the revision is the initial one plus N
RevisionIncrementsByOne ==
  [][/\ Revision(files'[STATE_FILE].doc)
          = Revision(files[STATE_FILE].doc) + (commits' - commits)
     /\ Revision(files'[STATE_FILE].doc) = commits']_vars

\* two mutations have been persisted one after the other, the revision is
\* the initial revision plus their number
TwoMutationsCounted == commits >= 2 /\ Revision(Persisted) = commits

\* C2: the read-modify-persist cycles exclude one another: at most one
\* thread is inside update_state, the one holding the lock; the document it
\* changes is the one left by the last completed mutation and it is the
\* only change persisted when it completes (revision = initial + number of
\* completed mutations); read_state runs only while no mutation is half
\* way and returns the persisted document whole
MutuallyExclusiveCycles ==
  [][/\ \A t, u \in Threads : InUpdate(t)' /\ InUpdate(u)' => t = u
     /\ \A t \in Threads : InUpdate(t)' => /\ lock' = t
                                            /\ loc'[t].base = files'[STATE_FILE].doc
     /\ \A t \in Threads : Commits(t) =>
          /\ loc[t].base = files[STATE_FILE].doc
          /\ files'[STATE_FILE] = Json(loc[t].state)
          /\ Revision(loc[t].state) = commits'
     /\ \A t \in Threads : pc[t] = "read" /\ pc'[t] = "idle" =>
          /\ \A u \in Threads : ~InUpdate(u)
          /\ ret' = [http |-> 200, state |-> files[STATE_FILE].doc, floor |-> loc[t].floor]]_vars

\* one caller is inside update_state while another waits for the lock
WaitsForTheLock ==
  \E t, u \in Threads : pc[t] = "replace" /\ pc[u] \in {"lock", "read", "seed_read"}

\* C3: a read_state that started after update_state had returned revision
\* r (floor: the highest revision returned when the read started) returns
\* a document whose meta.revision is at least r
ReadAfterWrite ==
  (ret.http = 200 /\ "floor" \in DOMAIN ret) => Revision(ret.state) >= ret.floor

\* a read that started after a mutation had returned has returned
ReadAfterMutation ==
  ret.http = 200 /\ "floor" \in DOMAIN ret /\ ret.floor >= 1

\* C4: STATE_FILE always holds a complete document: it changes only in the
\* replace of line 55, from the complete previous document to the complete
\* new one that the temporary file holds; failed writes and a crash while
\* the temporary file is part written leave it as it was
AtomicPersistence ==
  [][/\ files'[STATE_FILE].kind = "json"
     /\ files'[STATE_FILE] # files[STATE_FILE] =>
          \E t \in Threads : /\ pc[t] = "replace"
                             /\ files[tmp_path] = Json(loc[t].state)
                             /\ files'[STATE_FILE] = Json(loc[t].state)]_vars

\* the process was killed while the temporary file was part written
CrashedWhileWriting ==
  /\ faults >= 1
  /\ files[tmp_path].kind = "truncated"
  /\ files[STATE_FILE].kind = "json"

\* C5: a host_domain request with neither target_service nor target_url,
\* or with a domain that _normalize_domain refuses, ends with HTTP 400 and
\* no step of it changes STATE_FILE (so not meta.revision) or the artifact
RejectedHostNotApplied ==
  [][\A t \in Threads :
       /\ pc[t] = "idle" /\ pc'[t] = "host" => files' = files /\ artifact' = artifact
       /\ ( /\ pc[t] = "host"
            /\ pc'[t] # "host"
            /\ \/ ~Truthy(req[t].payload.target_service) /\ ~Truthy(req[t].payload.target_url)
               \/ _normalize_domain(req[t].payload.domain) = ValueError )
          => /\ pc'[t] = "idle"
             /\ ret' = Http400
             /\ files' = files
             /\ artifact' = artifact
             /\ commits' = commits]_vars

\* a host_domain request has been refused after a domain was hosted
HostRefused == ret = Http400 /\ commits >= 1 /\ Len(Persisted.domains) >= 1

\* C6: when the write of the temporary file or the replace fails, the
\* caller gets the error, the lock is free again, STATE_FILE still holds
\* the document the mutation started from, no revision was persisted and
\* the next read returns that document
FailedWriteNotApplied ==
  [][\A t \in Threads :
       (InUpdate(t) /\ pc'[t] = "idle" /\ faults' = faults) =>
          /\ ret' = Http500
          /\ lock' = 0
          /\ commits' = commits
          /\ files'[STATE_FILE] = Json(loc[t].base)
          /\ _read_state_unlocked(files', clock').doc = loc[t].base
          /\ ~_read_state_unlocked(files', clock').raised]_vars

\* a mutation has failed on a document that an earlier one had changed
WriteFailed ==
  ret = Http500 /\ lock = 0 /\ commits >= 1 /\ Revision(Persisted) = commits

\* C7 (as the specification states it): a read_state that finds STATE_FILE
\* truncated or otherwise unparseable does not raise, returns the fresh
\* document of revision 0 and leaves it in STATE_FILE
CorruptFileRecovered ==
  [][\A t \in Threads :
       (pc[t] = "read" /\ pc'[t] = "idle" /\ files[STATE_FILE].kind # "json") =>
          /\ ret'.http = 200
          /\ ret'.state = _default_state(clock')
          /\ Revision(ret'.state) = 0
          /\ files'[STATE_FILE] = Json(_default_state(clock'))]_vars

\* the hostnames of the records of a document
Hostnames(doc) == [i \in 1..Len(doc.domains) |-> Get(doc.domains[i], "domain", None)]

\* the indices of the records of a document for one hostname
RecordsOf(doc, host) == {i \in 1..Len(doc.domains) : Hostnames(doc)[i] = host}

\* C8 (as the specification states it): the persisted domains collection
\* never holds two records of one hostname
OneRecordPerHostname ==
  \A i, j \in 1..Len(Persisted.domains) :
    Hostnames(Persisted)[i] = Hostnames(Persisted)[j] => i = j

\* two records of one hostname are persisted
DuplicateHostname ==
  \E i, j \in 1..Len(Persisted.domains) :
    i < j /\ Hostnames(Persisted)[i] = Hostnames(Persisted)[j]

\* the record host_domain makes for a payload on a document without one
FirstRecord(payload, ts) ==
  HostMutAt(_default_state(ts), payload, HostLocals(payload, ts), 0).result

\* C9: when host_domain completes on a hostname whose only record is the
\* one a first call with the same payload made, there is still exactly one
\* record of the hostname, its history is [provisioned, updated] and its
\* other fields, updated_at apart, are what they were
IdempotentHostUpsert ==
  [][\A t \in Threads :
       (Commits(t) /\ req[t].op = "host_domain") =>
         \A i \in 1..Len(files[STATE_FILE].doc.domains) :
           ( /\ RecordsOf(files[STATE_FILE].doc, _normalize_domain(req[t].payload.domain)) = {i}
             /\ files[STATE_FILE].doc.domains[i]
                  = FirstRecord(req[t].payload, files[STATE_FILE].doc.domains[i].created_at) )
           => \E j \in 1..Len(files'[STATE_FILE].doc.domains) :
                /\ RecordsOf(files'[STATE_FILE].doc, _normalize_domain(req[t].payload.domain)) = {j}
                /\ Len(files'[STATE_FILE].doc.domains[j].history) = 2
                /\ files'[STATE_FILE].doc.domains[j].history[1]
                     = files[STATE_FILE].doc.domains[i].history[1]
                /\ files'[STATE_FILE].doc.domains[j].history[1].action = <<"provisioned">>
                /\ files'[STATE_FILE].doc.domains[j].history[2].action = <<"updated">>
                /\ DOMAIN files'[STATE_FILE].doc.domains[j] = DOMAIN files[STATE_FILE].doc.domains[i]
                /\ \A k \in DOMAIN files[STATE_FILE].doc.domains[i] \ {"updated_at", "history"} :
                     files'[STATE_FILE].doc.domains[j][k] = files[STATE_FILE].doc.domains[i][k]]_vars

\* a hostname has been hosted twice with the same target
HostedTwice ==
  \E i \in 1..Len(Persisted.domains) :
    /\ Len(Persisted.domains[i].history) = 2
    /\ Persisted.domains[i].history[1].action = <<"provisioned">>
    /\ Persisted.domains[i].history[2].action = <<"updated">>
    /\ Persisted.domains[i].history[1].target = Persisted.domains[i].history[2].target
    /\ RecordsOf(Persisted, Persisted.domains[i].domain) = {i}

\* C10 (as the specification states it): when register_agent completes for
\* a name that an agent record already has, letter case and characters
\* other than letters and digits apart, the number of agents does not grow
ReRegisterKeepsAgentCount ==
  [][\A t \in Threads :
       ( /\ Commits(t)
         /\ req[t].op = "register_agent"
         /\ \E s \in DOMAIN files[STATE_FILE].doc.agents :
              SelectSeq(Lower(files[STATE_FILE].doc.agents[s].name), IsAlnum)
                = SelectSeq(Lower(Strip(req[t].payload.name)), IsAlnum) )
       => Cardinality(DOMAIN files'[STATE_FILE].doc.agents)
            = Cardinality(DOMAIN files[STATE_FILE].doc.agents)]_vars

\* one name has two agent records
DuplicateAgent ==
  \E s, u \in DOMAIN Persisted.agents :
    s # u /\ Persisted.agents[s].name = Persisted.agents[u].name

\* C11 (as the specification states it): when register_agent completes on
\* a slug that already has a record, every capability and every domain the
\* record held before is still in it, together with those of the request
AdditiveAgentMerge ==
  [][\A t \in Threads :
       (Commits(t) /\ req[t].op = "register_agent") =>
         \A s \in DOMAIN files[STATE_FILE].doc.agents :
           /\ SeqToSet(files[STATE_FILE].doc.agents[s].capabilities)
                \subseteq SeqToSet(files'[STATE_FILE].doc.agents[s].capabilities)
           /\ SeqToSet(files[STATE_FILE].doc.agents[s].domains)
                \subseteq SeqToSet(files'[STATE_FILE].doc.agents[s].domains)
           /\ (s = loc[t].result.slug =>
                 /\ SeqToSet(Capabilities(req[t].payload.capabilities))
                      \subseteq SeqToSet(files'[STATE_FILE].doc.agents[s].capabilities)
                 /\ SeqToSet(_normalize_domains(req[t].payload.domains))
                      \subseteq SeqToSet(files'[STATE_FILE].doc.agents[s].domains))]_vars

\* an agent has been registered twice under one slug
RegisteredTwice ==
  \E s \in DOMAIN Persisted.agents :
    /\ Len(Persisted.agents[s].history) >= 2
    /\ \A i \in 1..Len(Persisted.agents[s].history) :
         Persisted.agents[s].history[i].action = <<"registered">>

\* the redirect-to-https middleware definition, lines 140-144
MiddlewareBlock ==
  << <<"  middlewares:">>, <<"    redirect-to-https:">>, <<"      redirectScheme:">>,
     <<"        scheme: https">>, <<"        permanent: true">> >>

\* the text holds the middleware definition at line i
MiddlewareAt(text, i) == i + 4 <= Len(text) /\ SubSeq(text, i, i + 4) = MiddlewareBlock

\* the text holds a router that matches the host, on the entry channel, for
\* the backend (lines 158-161)
HasRouter(text, host, entrypoint, service) ==
  \E i \in 1..(Len(text) - 3) :
    /\ text[i] = <<"      rule: Host(", Backtick>> \o host \o <<Backtick, ")">>
    /\ text[i + 1] = <<"      entryPoints:">>
    /\ text[i + 2] = <<"        - ">> \o entrypoint
    /\ text[i + 3] = <<"      service: ">> \o service

\* the text holds the backend with the server URL among its servers
\* (lines 181-185)
HasBackend(text, service, url) ==
  \E i \in 1..(Len(text) - 3) :
    /\ text[i] = <<"    ">> \o service \o <<":">>
    /\ text[i + 1] = <<"      loadBalancer:">>
    /\ text[i + 2] = <<"        servers:">>
    /\ \E j \in (i + 3)..Len(text) :
         /\ text[j] = <<"          - url: ", DQuote>> \o url \o <<DQuote>>
         /\ \A k \in (i + 3)..j : Head(text[k]) = "          - url: "

\* C12 (as the specification states it): when host_domain has rewritten the
\* artifact for a request that names a target_service and leaves every
\* other field at its default (auto_ssl and redirect_to_https true, no
\* entrypoint), the artifact holds the redirect middleware, a router for
\* the hostname on websecure and the backend at the service's default port
SecureRouteGenerated ==
  [][\A t \in Threads :
       ( /\ pc[t] = "config"
         /\ pc'[t] # "config"
         /\ req[t].op = "host_domain"
         /\ Truthy(req[t].payload.target_service)
         /\ req[t].payload
              = DomainHostRequest(req[t].payload.domain, req[t].payload.target_service, None) )
       => /\ \E i \in 1..Len(artifact'.lines) : MiddlewareAt(artifact'.lines, i)
          /\ HasRouter(artifact'.lines, _normalize_domain(req[t].payload.domain),
                       <<"websecure">>, req[t].payload.target_service)
          /\ HasBackend(artifact'.lines, req[t].payload.target_service,
                        <<"http", "://">> \o req[t].payload.target_service
                          \o <<":", PortStr(DefaultPort(req[t].payload.target_service, 80))>>)]_vars

\* a hostname provisioned by host_domain with auto_ssl is routed on web
ProvisionedOnWeb ==
  \E i \in 1..Len(Persisted.domains) :
    /\ Persisted.domains[i].history[1].action = <<"provisioned">>
    /\ Persisted.domains[i].auto_ssl
    /\ Truthy(Persisted.domains[i].target_service)
    /\ artifact.exists
    /\ HasRouter(artifact.lines, Persisted.domains[i].domain, <<"web">>,
                 Persisted.domains[i].target_service)

\* ------------------------------------- the generator called on its own
MaxRecords == 2

\* a record without a hostname: the generator skips it (lines 150-152)
HostlessRecord == [redirect_to_https |-> TRUE]

\* the requests whose records the generator is called with: a service and
\* a URL as targets, a hostname with a dash that asks for no redirect, and
\* a hostname served on the secure entry channel
ConfigRequests ==
  { DomainHostRequest(<<"a", ".", "c">>, <<"twinboss_api">>, None),
    DomainHostRequest(<<"b", ".", "c">>, None, <<"http://up:8000", "/">>),
    [DomainHostRequest(<<"a", "-", "c">>, <<"fastmcp">>, None)
       EXCEPT !.redirect_to_https = FALSE],
    [DomainHostRequest(<<"c", ".", "c">>, <<"fastmcp">>, None)
       EXCEPT !.entrypoint = <<"websecure">>] }

\* the records the generator is called with: the ones host_domain and the
\* seed make, and one without a hostname
ConfigRecords ==
  { HostMutAt(_default_state(0), p, HostLocals(p, 0), 0).result : p \in ConfigRequests }
  \cup { SeedEntry(<<"c", ".", "c">>, 0), HostlessRecord }

\* the lists of at most MaxRecords records
ConfigInputs == UNION { [1..n -> ConfigRecords] : n \in 0..MaxRecords }

\* a caller hands a list of records to _write_domain_dynamic_config
ConfigCall(t) ==
  \E domains \in ConfigInputs :
    /\ Begin(t)
    /\ Goto(t, "generate", [op |-> "_write_domain_dynamic_config", domains |-> domains], NoLocals)
    /\ UNCHANGED <<scope, faults, files, artifact, lock, clock, published, commits, returned>>

\* line 193: the artifact is written
ConfigWrite(t) ==
  /\ pc[t] = "generate"
  /\ artifact' = _write_domain_dynamic_config(req[t].domains)
  /\ Finish(t, NoResponse)
  /\ UNCHANGED <<scope, faults, files, lock, clock, published, ops, commits, returned>>

InitConfig == InitScope("config")

NextConfig ==
  \/ \E t \in Threads : ConfigCall(t)
  \/ \E t \in Threads : ConfigWrite(t)

SpecConfig == InitConfig /\ [][NextConfig]_vars

\* the list in another order: q is a permutation of its indices
Reordered(list, q) == [i \in 1..Len(list) |-> list[q[i]]]

\* the permutations of 1..n
OrdersOf(n) == {q \in [1..n -> 1..n] : \A i, j \in 1..n : q[i] = q[j] => i = j}

\* C13 (as the specification states it): the text the generator writes for
\* a list of records is the text it writes for the same records in any
\* other order
OrderIndependentConfig ==
  [][\A t \in Threads :
       (pc[t] = "generate" /\ pc'[t] = "idle") =>
         \A q \in OrdersOf(Len(req[t].domains)) :
           _write_domain_dynamic_config(Reordered(req[t].domains, q)) = artifact']_vars

\* C14 (as the specification states it): when every host_domain and seed
\* that was started has completed and the artifact has been written, the
\* artifact is the projection of the persisted domains collection
ArtifactMatchesPersisted ==
  ((\A t \in Threads : pc[t] = "idle") /\ artifact.exists)
    => artifact = _write_domain_dynamic_config(Persisted.domains)

\* the line of the text that opens a section
SectionAt(text, header) == CHOOSE i \in 1..Len(text) : text[i] = <<header>>

\* the names that open an entry of the routers block
RouterHeaders(text) ==
  { text[i] : i \in { j \in (SectionAt(text, "  routers:") + 1)..(SectionAt(text, "  services:") - 1) :
                        text[j] = <<"    placeholder:">> \/ Head(text[j]) = "    " } }

\* the names that open an entry of the services block
BackendHeaders(text) ==
  { text[i] : i \in { j \in (SectionAt(text, "  services:") + 1)..Len(text) :
                        text[j] = <<"    noop:">> \/ Head(text[j]) = "    " } }

\* the records of the list that have a hostname
WithHostname(domains) == SelectSeq(domains, LAMBDA e : Truthy(Get(e, "domain", None)))

\* C15: for a list without a record that has a hostname the generated text
\* has exactly one router, the placeholder, and exactly one backend, noop;
\* for a list with such a record it has neither of the two
PlaceholderOnlyWhenEmpty ==
  [][\A t \in Threads :
       (pc[t] = "generate" /\ pc'[t] = "idle") =>
         IF WithHostname(req[t].domains) = <<>>
         THEN /\ RouterHeaders(artifact'.lines) = { <<"    placeholder:">> }
              /\ BackendHeaders(artifact'.lines) = { <<"    noop:">> }
              /\ Cardinality({i \in 1..Len(artifact'.lines) :
                                artifact'.lines[i] = <<"    placeholder:">>}) = 1
              /\ Cardinality({i \in 1..Len(artifact'.lines) :
                                artifact'.lines[i] = <<"    noop:">>}) = 1
         ELSE /\ <<"    placeholder:">> \notin RouterHeaders(artifact'.lines)
              /\ <<"    noop:">> \notin BackendHeaders(artifact'.lines)
              /\ \A i \in 1..Len(artifact'.lines) :
                   /\ artifact'.lines[i] # <<"      service: noop">>
                   /\ artifact'.lines[i] # <<"    placeholder:">>
                   /\ artifact'.lines[i] # <<"    noop:">>]_vars

\* the generator has written the placeholder text for a list that is not
\* empty: its record without a hostname asks for the redirect
PlaceholderForHostless ==
  /\ artifact.exists
  /\ RouterHeaders(artifact.lines) = { <<"    placeholder:">> }
  /\ BackendHeaders(artifact.lines) = { <<"    noop:">> }
  /\ \E i \in 1..Len(artifact.lines) : MiddlewareAt(artifact.lines, i)

\* C16 (as the specification states it): the response of host_domain,
\* setup_date_storage, register_agent and agents_create carries the
\* revision that the call's own update_state persisted and the record the
\* mutation wrote
ReturnsRecordAndRevision ==
  [][\A t \in Threads :
       (pc[t] = "publish" /\ pc'[t] = "idle") =>
         /\ ret'.http = 200
         /\ "revision" \in DOMAIN ret'
         /\ ret'.revision = Revision(loc[t].state)
         /\ \E k \in DOMAIN ret' \ {"http", "revision"} : ret'[k] = loc[t].result]_vars

\* register_agent has returned its record without a revision
AgentReturnedWithoutRevision ==
  ret.http = 200 /\ "agent" \in DOMAIN ret /\ "revision" \notin DOMAIN ret

\* C17: when host_domain completes on a hostname that has a record, no
\* record is added or removed, every record of the hostname keeps its
\* domain, id and created_at and its history as a prefix of the new one,
\* and the record that is updated (the first of the hostname) has exactly
\* one more history entry
HostKeepsIdentityAndHistory ==
  [][\A t \in Threads :
       ( /\ Commits(t)
         /\ req[t].op = "host_domain"
         /\ RecordsOf(files[STATE_FILE].doc, _normalize_domain(req[t].payload.domain)) # {} )
       => /\ Len(files'[STATE_FILE].doc.domains) = Len(files[STATE_FILE].doc.domains)
          /\ \A i \in RecordsOf(files[STATE_FILE].doc, _normalize_domain(req[t].payload.domain)) :
               /\ files'[STATE_FILE].doc.domains[i].domain = files[STATE_FILE].doc.domains[i].domain
               /\ files'[STATE_FILE].doc.domains[i].id = files[STATE_FILE].doc.domains[i].id
               /\ files'[STATE_FILE].doc.domains[i].created_at
                    = files[STATE_FILE].doc.domains[i].created_at
               /\ Len(files'[STATE_FILE].doc.domains[i].history)
                    = Len(files[STATE_FILE].doc.domains[i].history)
                      + (IF i = FirstIndexOf(files[STATE_FILE].doc.domains,
                                             _normalize_domain(req[t].payload.domain))
                         THEN 1 ELSE 0)
               /\ SubSeq(files'[STATE_FILE].doc.domains[i].history, 1,
                         Len(files[STATE_FILE].doc.domains[i].history))
                    = files[STATE_FILE].doc.domains[i].history]_vars

\* a seeded hostname has been hosted afterwards
SeededThenHosted ==
  \E i \in 1..Len(Persisted.domains) :
    /\ Len(Persisted.domains[i].history) >= 2
    /\ Persisted.domains[i].history[1].action = <<"seeded-env">>
    /\ Persisted.domains[i].history[2].action = <<"updated">>

\* ------------------------------------------- the storage profile's life
InitStorage == InitScope("storage")

NextStorage ==
  \/ \E t \in Threads : StorageCall(t)
  \/ \E t \in Threads : RegisterReject(t)
  \/ \E t \in Threads : RegisterAccept(t)
  \/ \E t \in Threads : ReadCall(t)
  \/ \E t \in Threads : ReadState(t)
  \/ \E t \in Threads : Acquire(t)
  \/ \E t \in Threads : WriteTmp(t)
  \/ \E t \in Threads : Replace(t)
  \/ \E t \in Threads : Publish(t)

SpecStorage == InitStorage /\ [][NextStorage]_vars

\* the persisted storage profile
Profile == Persisted.storage.date_app

\* the fields of DateStorageRequest, lines 367-374
ProfileFields ==
  {"storage_engine", "primary_region", "replicas", "retention_days",
   "backup_regions", "analytics", "encryption", "notes"}

\* C18: the profile's status is uninitialized or ready; it changes only
\* when a setup_date_storage completes, which makes it ready and sets
\* every configuration field to the request's value; once ready it is
\* ready after every later step, whatever mutation completes
StorageLifecycle ==
  [][/\ Profile.status \in { <<"uninitialized">>, <<"ready">> }
     /\ Profile.status = <<"ready">> => Profile'.status = <<"ready">>
     /\ Profile'.status # Profile.status =>
          \E t \in Threads : Commits(t) /\ req[t].op = "setup_date_storage"
     /\ \A t \in Threads :
          (Commits(t) /\ req[t].op = "setup_date_storage") =>
             /\ Profile'.status = <<"ready">>
             /\ \A k \in ProfileFields : Profile'[k] = req[t].payload[k]
     /\ \A t \in Threads :
          (Commits(t) /\ req[t].op # "setup_date_storage") => Profile' = Profile]_vars

\* a second setup has replaced the profile that the first one had made
ProfileReplaced ==
  /\ commits >= 2
  /\ Profile.status = <<"ready">>
  /\ Profile.storage_engine = <<"sqlite">>
  /\ Profile.updated_at > Persisted.meta.created_at

\* --------------------------------------------------- the order of domains
\* C19: the domains of the persisted document are in ascending order of
\* hostname: no record is followed by one whose hostname is smaller
DomainsSorted ==
  \A i, j \in 1..Len(Persisted.domains) :
     i < j => ~StrLess(Persisted.domains[j].domain, Persisted.domains[i].domain)

\* a record put in later stands before one of another hostname put in earlier
LaterRecordFirst ==
  /\ Len(Persisted.domains) >= 2
  /\ StrLess(Persisted.domains[1].domain, Persisted.domains[2].domain)
  /\ Persisted.domains[1].created_at > Persisted.domains[2].created_at

\* ------------------------------------------------ publishing and the lock
\* C20: a handler that is about to publish its event does not hold the
\* state lock, and the document its update_state wrote is already the
\* persisted one or an older one than it: the lock is held only by a
\* thread inside update_state, so a publish that lasts delays no other
\* caller of read_state or update_state
PublishOutsideLock ==
  /\ lock # 0 => InUpdate(lock)
  /\ \A t \in Threads :
       pc[t] = "publish" =>
          /\ lock # t
          /\ Revision(Persisted) >= Revision(loc[t].state)

\* while one handler has still to publish, another caller holds the lock
LockTakenDuringPublish ==
  \E t, u \in Threads :
     /\ t # u
     /\ pc[t] = "publish"
     /\ lock = u

\* ------------------------------------------------- waiting for the lock
\* the store with writes that fail and a file that is damaged from outside
NextLive ==
  \/ NextStore
  \/ \E t \in Threads : WriteTmpFail(t)
  \/ \E t \in Threads : ReplaceFail(t)
  \/ Corrupt

\* update_state of thread t can take the lock: Acquire(t) is enabled
CanTake(t) == pc[t] = "lock" /\ CanAcquire(lock)

\* a step in which update_state of thread t takes the lock
Takes(t) == pc[t] = "lock" /\ pc'[t] # "lock"

\* read_state takes the lock when it is free, and a thread inside the with
\* block goes on to its end, by success or by an exception
LockStep(t) ==
  \/ ReadState(t)
  \/ WriteTmp(t)
  \/ WriteTmpFail(t)
  \/ Replace(t)
  \/ ReplaceFail(t)

\* a thread that can go on does so in the end; the first disjunction is
\* the weak fairness of Acquire(t), written with its enabling condition
FairLock ==
  \A t \in Threads :
     /\ []<>(~CanTake(t)) \/ []<><<Takes(t)>>_vars
     /\ WF_vars(LockStep(t))

SpecLive == InitStore /\ [][NextLive]_vars /\ FairLock

\* thread t waits for _state_lock or is inside the with block
AtLock(t) == pc[t] \in {"lock", "read", "write_tmp", "replace"}

\* C21: under fair scheduling every caller of read_state or update_state
\* that waits for the state lock gets it and leaves the locked block, also
\* when other callers fail inside the block by a read or a write that raises
NoCallerWaitsForever ==
  \A t \in Threads : (pc[t] \in {"lock", "read"}) ~> ~AtLock(t)

\* a caller is at the lock, which is free again after another caller's
\* write has raised inside the with block
WaitsAfterFailure ==
  \E t \in Threads :
     /\ pc[t] \in {"lock", "read"}
     /\ lock = 0
     /\ ret = Http500
     /\ faults = 0
     /\ commits = 0
\* -------------------------------------------------- the counts of meta
\* the meta block of doc says what doc holds
MetaAgrees(doc) ==
  /\ {"domain_count", "agent_count", "date_storage_status"} \subseteq DOMAIN doc.meta
  /\ doc.meta.domain_count = Len(doc.domains)
  /\ doc.meta.agent_count = Cardinality(DOMAIN doc.agents)
  /\ doc.meta.date_storage_status = doc.storage.date_app.status

\* C22: when an update_state returns, the persisted meta block agrees with
\* the persisted document: domain_count is the number of domain records,
\* agent_count the number of agent records, date_storage_status the status
\* of the storage profile
MetaDescribesDocument ==
  [][\A t \in Threads : Commits(t) => MetaAgrees(Persisted')]_vars

\* a document with a domain record and a ready storage profile, both counted
CountedDomainAndStorage ==
  /\ Revision(Persisted) >= 2
  /\ Persisted.meta.domain_count = 1
  /\ Persisted.meta.date_storage_status = <<"ready">>

\* --------------------------------------- the created_at of the profile
\* C23 (as the specification states it): when a setup_date_storage
\* completes, the profile has a created_at; it is the time of the call,
\* which is also the new updated_at, when the profile was uninitialized
\* before, and the one the profile had otherwise, while updated_at does
\* not go back
ProfileKeepsCreatedAt ==
  [][\A t \in Threads :
       (Commits(t) /\ req[t].op = "setup_date_storage") =>
          /\ "created_at" \in DOMAIN Profile'
          /\ Profile'.updated_at >= Profile.updated_at
          /\ Profile'.created_at =
               (IF Profile.status = <<"uninitialized">> THEN Profile'.updated_at
                ELSE Profile.created_at)]_vars

\* the profile is ready and has no created_at
ReadyWithoutCreatedAt ==
  /\ Profile.status = <<"ready">>
  /\ "created_at" \notin DOMAIN Profile

\* ------------------------------------------------- the names of routers
\* the hostnames of the records of the list
HostnamesIn(domains) ==
  { WithHostname(domains)[i].domain : i \in 1..Len(WithHostname(domains)) }

\* C24 (as the specification states it): the routers block the generator
\* writes has as many distinctly named entries as the records of the list
\* have different hostnames: no two hostnames share a router name
DistinctRouterPerHostname ==
  [][\A t \in Threads :
       (pc[t] = "generate" /\ pc'[t] = "idle" /\ HostnamesIn(req[t].domains) # {}) =>
          Cardinality(RouterHeaders(artifact'.lines)) =
            Cardinality(HostnamesIn(req[t].domains))]_vars

\* the text has two routers of one name, for the hosts a.c and a-c
RouterNameShared ==
  /\ artifact.exists
  /\ RouterHeaders(artifact.lines) = { <<"    ", "a", "-", "c", ":">> }
  /\ \E i, j \in 1..Len(artifact.lines) :
       /\ artifact.lines[i] = <<"      rule: Host(", Backtick, "a", ".", "c", Backtick, ")">>
       /\ artifact.lines[j] = <<"      rule: Host(", Backtick, "a", "-", "c", Backtick, ")">>

\* ------------------------------------------------ the redirect middleware
\* the lines of the text that hold the rule of a router
RuleLines(text) ==
  { i \in 1..Len(text) : text[i] # <<>> /\ Head(text[i]) = "      rule: Host(" }

\* the line of the rule of the k-th router of the text
NthRule(text, k) ==
  CHOOSE i \in RuleLines(text) : Cardinality({j \in RuleLines(text) : j < i}) = k - 1

\* the router whose rule is at line p attaches the redirect middleware
Attaches(text, p) ==
  /\ p + 5 <= Len(text)
  /\ text[p + 4] = <<"      middlewares:">>
  /\ text[p + 5] = <<"        - redirect-to-https">>

\* the router whose rule is at line p is on the secure entry channel
OnWebsecure(text, p) == text[p + 2] = <<"        - ", "websecure">>

\* C25: the text the generator writes holds the redirect-to-https
\* middleware definition once when a record of the list has
\* redirect_to_https set and not at all otherwise; it has one router for
\* each record with a hostname, in the order of the list, and that router
\* attaches the middleware exactly when its record has redirect_to_https
\* set and its entry channel is not websecure; so the middleware is never
\* attached where it is not defined
RedirectDefinedAndAttached ==
  [][\A t \in Threads :
       (pc[t] = "generate" /\ pc'[t] = "idle") =>
          /\ Cardinality({i \in 1..Len(artifact'.lines) : MiddlewareAt(artifact'.lines, i)})
               = (IF \E k \in 1..Len(req[t].domains) :
                       Get(req[t].domains[k], "redirect_to_https", FALSE)
                  THEN 1 ELSE 0)
          /\ Cardinality({i \in 1..Len(artifact'.lines) :
                            artifact'.lines[i] = <<"  middlewares:">>}) <= 1
          /\ Cardinality(RuleLines(artifact'.lines)) = Len(WithHostname(req[t].domains))
          /\ \A k \in 1..Len(WithHostname(req[t].domains)) :
               Attaches(artifact'.lines, NthRule(artifact'.lines, k))
                 <=> /\ Get(WithHostname(req[t].domains)[k], "redirect_to_https", FALSE)
                     /\ ~OnWebsecure(artifact'.lines, NthRule(artifact'.lines, k))
          /\ (\E i \in 1..Len(artifact'.lines) :
                artifact'.lines[i] = <<"        - redirect-to-https">>)
               => \E i \in 1..Len(artifact'.lines) : MiddlewareAt(artifact'.lines, i)]_vars

\* the text defines the middleware and has a router on websecure without
\* it and a router on web with it
RedirectOnWebOnly ==
  /\ artifact.exists
  /\ \E i \in 1..Len(artifact.lines) : MiddlewareAt(artifact.lines, i)
  /\ \E p, q \in RuleLines(artifact.lines) :
       /\ OnWebsecure(artifact.lines, p)
       /\ ~Attaches(artifact.lines, p)
       /\ ~OnWebsecure(artifact.lines, q)
       /\ Attaches(artifact.lines, q)

\* ------------------------------------------------- the seed and its skips
\* the hostnames found in the environment
EnvHostnames == SeqToSet(_collect_domains_from_env(EnvValues))

\* C26 (as the specification states it): when the update_state of a seed
\* returns, every environment hostname that had no record has exactly one,
\* every one that had records has as many as before, and every record that
\* was persisted is persisted unchanged; a seed that finds every
\* environment hostname in the state it reads changes no file
SeedSkipsExisting ==
  [][\A t \in Threads :
       /\ (Commits(t) /\ req[t].op = "seed_domains_from_env") =>
            /\ \A h \in EnvHostnames :
                 Cardinality(RecordsOf(Persisted', h)) =
                   (IF RecordsOf(Persisted, h) = {} THEN 1
                    ELSE Cardinality(RecordsOf(Persisted, h)))
            /\ \A i \in 1..Len(Persisted.domains) :
                 \E j \in 1..Len(Persisted'.domains) :
                   Persisted'.domains[j] = Persisted.domains[i]
       /\ (pc[t] = "seed_read" /\ pc'[t] = "idle") =>
            /\ files' = files
            /\ \A h \in EnvHostnames : RecordsOf(Persisted, h) # {}]_vars

\* a hostname has the record host_domain made and the one the seed made
SeededOverHosted ==
  \E i, j \in 1..Len(Persisted.domains) :
    /\ i # j
    /\ Hostnames(Persisted)[i] = Hostnames(Persisted)[j]
    /\ Persisted.domains[i].history[1].action = <<"provisioned">>
    /\ Persisted.domains[j].history[1].action = <<"seeded-env">>

\* ------------------------------------------- what a mutation leaves alone
InitFrame == InitScope("frame")

NextFrame ==
  \/ \E t \in Threads : HostCall(t)
  \/ \E t \in Threads : HostAccept(t)
  \/ \E t \in Threads : StorageCall(t)
  \/ \E t \in Threads : RegisterAccept(t)
  \/ \E t \in Threads : CreateCall(t)
  \/ \E t \in Threads : Acquire(t)
  \/ \E t \in Threads : WriteTmp(t)
  \/ \E t \in Threads : Replace(t)
  \/ \E t \in Threads : WriteConfig(t)
  \/ \E t \in Threads : Publish(t)

SpecFrame == InitFrame /\ [][NextFrame]_vars

\* the update_state of an operation of one of the kinds returns in this step
CommitsOneOf(t, kinds) == Commits(t) /\ req[t].op \in kinds

\* C27: when a register_agent, agents_create or setup_date_storage is
\* persisted the domains collection is what it was, and no step of these
\* operations changes the artifact; when a host_domain is persisted the
\* agents map and the storage profile are what they were, as is the agents
\* map for setup_date_storage and the profile for the agent operations;
\* host_domain leaves the records of every other hostname as they were and
\* adds at most one record; the agent operations leave the record of every
\* other slug as it was and add at most the record of their slug
MutationFrame ==
  [][/\ \A t \in Threads :
          /\ CommitsOneOf(t, {"register_agent", "agents_create", "setup_date_storage"})
               => Persisted'.domains = Persisted.domains
          /\ CommitsOneOf(t, {"host_domain", "setup_date_storage"})
               => Persisted'.agents = Persisted.agents
          /\ CommitsOneOf(t, {"host_domain", "register_agent", "agents_create"})
               => Persisted'.storage = Persisted.storage
          /\ CommitsOneOf(t, {"host_domain"}) =>
               /\ Len(Persisted'.domains) <= Len(Persisted.domains) + 1
               /\ \A i \in 1..Len(Persisted.domains) :
                    Hostnames(Persisted)[i] # loc[t].result.domain =>
                      \E j \in 1..Len(Persisted'.domains) :
                        Persisted'.domains[j] = Persisted.domains[i]
          /\ CommitsOneOf(t, {"register_agent", "agents_create"}) =>
               /\ DOMAIN Persisted'.agents \subseteq DOMAIN Persisted.agents \cup {loc[t].result.slug}
               /\ \A k \in DOMAIN Persisted.agents \ {loc[t].result.slug} :
                    /\ k \in DOMAIN Persisted'.agents
                    /\ Persisted'.agents[k] = Persisted.agents[k]
     /\ artifact' # artifact =>
          \E t \in Threads : pc[t] = "config" /\ req[t].op = "host_domain"]_vars

\* two agents of different slugs are persisted, by two mutations
TwoAgentsPersisted ==
  /\ commits = 2
  /\ Cardinality(DOMAIN Persisted.agents) = 2

====
